---------------------------- MODULE Spec2Model ----------------------------
(***************************************************************************)
(* Model of the credential lifecycle of hexagonal-auth-service:            *)
(*   RegisterUserService.RegisterUser  (bcrypt hash, then SaveUser)        *)
(*   UserPersistenceMongoAdapter.SaveUser (InsertOne into "user")          *)
(*   LoadUserService.LoadUser (FindUser, bcrypt compare, JWT issue)        *)
(* Requests run in parallel.  RegisterUser takes three steps: it hashes,   *)
(* SaveUser builds the document and reads the clock, and InsertOne sends   *)
(* the document; time and any other call may pass in between.  LoadUser    *)
(* reaches the shared collection once, in one atomic step.                 *)
(*                                                                         *)
(* Go strings are TLA+ strings, a character for a byte.  A Go error is the *)
(* sequence of its wrapped messages and nil is the empty sequence.  The    *)
(* token string is the sequence of its segments, "" the empty sequence.    *)
(***************************************************************************)
EXTENDS Integers, Sequences, FiniteSets, TLC

VARIABLES
    store,       \* the documents of the "user" collection, in insertion order
    now,         \* the wall clock read by time.Now()
    pending,     \* the RegisterUser calls in flight, each before or inside its SaveUser
    drawn,       \* how many salts bcrypt has drawn from the random source
    last,        \* what the call that returned in the latest step was given and returned
    registered,  \* the <<username, password>> of every RegisterUser that was called
                 \* when the collection held no such username and returned nil
    http         \* the HTTP exchange answered most recently: request and response

vars == <<store, now, pending, drawn, last, registered, http>>

-----------------------------------------------------------------------------
(* Bounds of the exploration *)

MaxSalt == 2         \* salts bcrypt may draw: the RegisterUser calls that get to hash
MaxClock == 1        \* half seconds the clock may advance

(* Program constants *)

BcryptMaxLen == 72       \* bcrypt: longest password accepted, bytes of key Blowfish reads
DefaultCost == 10        \* bcrypt.DefaultCost
SecondsPerHour == 3600   \* time.Hour
NanosPerSecond == 1000000000   \* time.Second
StatusCreated == 201             \* http.StatusCreated
StatusBadRequest == 400          \* http.StatusBadRequest
StatusNotFound == 404            \* http.StatusNotFound
StatusMethodNotAllowed == 405    \* http.StatusMethodNotAllowed
StatusInternalServerError == 500 \* http.StatusInternalServerError

-----------------------------------------------------------------------------
(* Inputs *)

RECURSIVE Repeat(_, _)
Repeat(char, n) == IF n = 0 THEN "" ELSE char \o Repeat(char, n - 1)

Usernames == {"", "alice"}

(* no password, one of the longest length bcrypt hashes, one a byte longer *)
Passwords == {"", Repeat("a", BcryptMaxLen), Repeat("a", BcryptMaxLen + 1)}

Nil == <<>>

NoToken == <<>>

(* fmt.Errorf("msg: %w", err): the message, then the chain it wraps *)
Errorf(msg, err) == <<msg>> \o err

-----------------------------------------------------------------------------
(* time: a Time is seconds since the epoch and nanoseconds within the second; *)
(* a Duration is counted in seconds, the only durations the code uses          *)

Epoch == [sec |-> 0, nsec |-> 0]

(* the half seconds of a clock reading, the clock's step in the model *)
HalfSeconds(t) == 2 * t.sec + (IF t.nsec = 0 THEN 0 ELSE 1)

Hour == SecondsPerHour

HalfSecond == NanosPerSecond \div 2

Add(t, d) == [sec |-> t.sec + d, nsec |-> t.nsec]

(* Unix with the time rounded to the nearest second instead of truncated *)
UnixRounded(t) == IF t.nsec >= HalfSecond THEN t.sec + 1 ELSE t.sec

Unix(t) == t.sec

-----------------------------------------------------------------------------
(* golang.org/x/crypto/bcrypt as the services call it.  A hash string is    *)
(* the record of the parts it encodes; NoHash is a stored string too short  *)
(* to be parsed as one (the empty string).                                  *)

ErrPasswordTooLong == <<"bcrypt: password length exceeds 72 bytes">>

ErrMismatchedHashAndPassword ==
    <<"crypto/bcrypt: hashedPassword is not the hash of the given password">>

ErrHashTooShort == <<"crypto/bcrypt: hashedSecret too short to be a bcrypted password">>

NoHash == [version |-> "", cost |-> 0, salt |-> 0, digest |-> ""]

(* the byte 0, which no password of the model contains *)
NUL == "0"

(* the first n bytes of key read cyclically; key is not empty *)
RECURSIVE Cycle(_, _)
Cycle(key, n) ==
    IF Len(key) >= n THEN SubSeq(key, 1, n) ELSE Cycle(key \o key, n)

(* The key bytes Blowfish is set up with: the password and a trailing NUL, *)
(* read cyclically for 18 words of 4 bytes.  The digest depends on the     *)
(* password through these bytes alone.                                     *)
BlowfishKey(password) == Cycle(password \o NUL, BcryptMaxLen)

Bcrypt(password, cost, salt) ==
    [version |-> "2a", cost |-> cost, salt |-> salt, digest |-> BlowfishKey(password)]

GenerateFromPassword(password, cost, salt) ==
    IF Len(password) > BcryptMaxLen
    THEN [hash |-> NoHash, err |-> ErrPasswordTooLong]
    ELSE [hash |-> Bcrypt(password, cost, salt), err |-> Nil]

CompareHashAndPassword(hashedPassword, password) ==
    IF hashedPassword.version = ""
    THEN ErrHashTooShort
    ELSE IF Bcrypt(password, hashedPassword.cost, hashedPassword.salt) = hashedPassword
         THEN Nil
         ELSE ErrMismatchedHashAndPassword

-----------------------------------------------------------------------------
(* the "user" collection *)

ErrStore == <<"mongo: server selection error">>

ErrNoDocuments == <<"mongo: no documents in result">>

Matching(docs, username) == {i \in 1..Len(docs) : docs[i].username = username}

Min(S) == CHOOSE x \in S : \A y \in S : x <= y

(* an insert that replaces the documents of the same username *)
InsertOneUpsert(docs, doc, fault) ==
    IF fault = "none"
    THEN [docs |-> Append(SelectSeq(docs, LAMBDA d : d.username # doc.username), doc),
          err |-> Nil]
    ELSE [docs |-> IF fault = "applied"
                   THEN Append(SelectSeq(docs, LAMBDA d : d.username # doc.username), doc)
                   ELSE docs,
          err |-> ErrStore]

(* collection.InsertOne as the driver reports it to SaveUser.  The call is *)
(* a round trip to the server: it returns nil with the document appended, *)
(* or it returns an error, and then the server either never applied the   *)
(* write ("unapplied") or applied it before the failure, a reply lost or  *)
(* a write concern not met ("applied").  The collection has no unique     *)
(* index, and SaveUser neither reads back nor removes what it sent.       *)
InsertOne(docs, doc, fault) ==
    IF fault = "none"
    THEN [docs |-> Append(docs, doc), err |-> Nil]
    ELSE [docs |-> IF fault = "applied" THEN Append(docs, doc) ELSE docs,
          err |-> ErrStore]

(* what can happen to one InsertOne *)
InsertFaults == {"none", "unapplied", "applied"}

(* SaveUser as it builds the document: the clock is read here, before *)
(* the document is sent                                               *)
NewUserDocument(username, hashedPassword, t) ==
    [username |-> username, password |-> hashedPassword, createdAt |-> t]

(* SaveUser as it sends the document it built and wraps a driver error *)
SaveUser(docs, user, fault) ==
    LET res == InsertOne(docs, user, fault)
    IN  IF res.err # Nil
        THEN [docs |-> res.docs, err |-> Errorf("failed to save user", res.err)]
        ELSE [docs |-> res.docs, err |-> Nil]

IsUsernameAvailable(docs, username, fault) ==
    IF fault
    THEN [available |-> FALSE, err |-> ErrStore]
    ELSE [available |-> Matching(docs, username) = {}, err |-> Nil]

(* domain.User as LoadUser reads it *)
ZeroUser == [Username |-> "", Password |-> NoHash, Role |-> ""]

(* FindUser of the persistence port: the first document of that username  *)
(* in the collection's natural order, decoded into a domain.User; a field *)
(* the document lacks decodes to the zero value.                          *)
FindUser(docs, username, fault) ==
    IF fault
    THEN [user |-> ZeroUser, err |-> ErrStore]
    ELSE IF Matching(docs, username) = {}
         THEN [user |-> ZeroUser, err |-> ErrNoDocuments]
         ELSE LET doc == docs[Min(Matching(docs, username))]
              IN  [user |-> [Username |-> doc.username,
                             Password |-> doc.password,
                             Role     |-> IF "role" \in DOMAIN doc THEN doc.role ELSE ""],
                   err  |-> Nil]

-----------------------------------------------------------------------------
(* github.com/golang-jwt/jwt/v5 as LoadUser calls it: a signed token is its *)
(* three segments, header, claims and signature                            *)

jwtKey == "my_secret_key"

ErrSign == <<"jwt: signing failed">>

SignedString(claims, key, fault) ==
    IF fault
    THEN [str |-> NoToken, err |-> ErrSign]
    ELSE [str |-> <<[typ |-> "JWT", alg |-> "HS256"], claims, [alg |-> "HS256", key |-> key]>>,
          err |-> Nil]

-----------------------------------------------------------------------------
(* LoadUserService.LoadUser *)

ErrInvalidCredentials == <<"invalid username or password">>

(* lines 75-87 without the check of SignedString's error *)
IssueTokenUnchecked(user, t, signFault) ==
    LET claims == [username |-> user.Username,
                   role     |-> user.Role,
                   exp      |-> Unix(Add(t, Hour * 24))]
        signed == SignedString(claims, jwtKey, signFault)
    IN  [token |-> signed.str, err |-> Nil]

(* lines 75-87: the claims are set and the token is signed *)
IssueToken(user, t, signFault) ==
    LET claims == [username |-> user.Username,
                   role     |-> user.Role,
                   exp      |-> Unix(Add(t, Hour * 24))]
        signed == SignedString(claims, jwtKey, signFault)
    IN  IF signed.err # Nil
        THEN [token |-> NoToken, err |-> Errorf("error while creating jwt", signed.err)]
        ELSE [token |-> signed.str, err |-> Nil]

LoadUser(docs, username, password, t, findFault, signFault) ==
    LET found == FindUser(docs, username, findFault)
    IN  IF found.err # Nil
        THEN [token |-> NoToken, err |-> Errorf("error finding user", found.err)]
        ELSE
        LET user == found.user
            cmp  == CompareHashAndPassword(user.Password, password)
        IN  IF cmp # Nil
            THEN IF cmp = ErrMismatchedHashAndPassword
                 THEN [token |-> NoToken, err |-> ErrInvalidCredentials]
                 ELSE [token |-> NoToken, err |-> Errorf("error comparing passwords", cmp)]
            ELSE IssueToken(user, t, signFault)

-----------------------------------------------------------------------------
(* The web adapter and the server main starts.  A ServeMux is the set of  *)
(* the patterns registered on it; the handler argument of ListenAndServe  *)
(* is nil or a mux.                                                       *)

RegisterPattern == [method |-> "POST", path |-> "/user/register"]

NewServeMux == {}

(* nothing in the program registers on http.DefaultServeMux *)
DefaultServeMux == {}

InitUserRoutes(mux) == mux \cup {RegisterPattern}

(* main: mux := http.NewServeMux(); userApiAdapter.InitUserRoutes(mux) *)
MainMux == InitUserRoutes(NewServeMux)

(* main: http.ListenAndServe(":8080", nil) *)
ListenAndServeHandler == [nil |-> TRUE, mux |-> NewServeMux]

(* net/http: a nil handler means DefaultServeMux *)
ServerMux(handler) == IF handler.nil THEN DefaultServeMux ELSE handler.mux

(* ServeMux dispatch: the handler of the matching pattern, 405 when only *)
(* the method differs, 404 otherwise                                     *)
ServeMuxHandler(mux, method, path) ==
    IF [method |-> method, path |-> path] \in mux
    THEN "handleUserRegister"
    ELSE IF \E pat \in mux : pat.path = path
         THEN "MethodNotAllowed"
         ELSE "NotFound"

(* handleUserRegister: the status it writes once RegisterUser returned *)
RegisterStatus(err) ==
    IF err # Nil THEN StatusInternalServerError ELSE StatusCreated

(* net/http: the status of a request the mux routes to no handler *)
UnroutedStatus(handler) ==
    IF handler = "MethodNotAllowed" THEN StatusMethodNotAllowed ELSE StatusNotFound

Methods == {"POST", "GET"}

Paths == {"/user/register", "/user/load"}

(* request bodies: one that is no JSON, and {username, password} objects *)
Bodies ==
    {[json |-> FALSE, username |-> "", password |-> ""]}
    \cup {[json |-> TRUE, username |-> u, password |-> p] : u \in Usernames, p \in Passwords}

Exchange(via, method, path, body, handler, status, calls, existed) ==
    [via |-> via, method |-> method, path |-> path, body |-> body,
     handler |-> handler, status |-> status, calls |-> calls,
     existed |-> existed]

(* the body of a request that decodes to these credentials *)
JSONBody(username, password) ==
    [json |-> TRUE, username |-> username, password |-> password]

NoExchange ==
    [via |-> "none", method |-> "", path |-> "",
     body |-> [json |-> FALSE, username |-> "", password |-> ""],
     handler |-> "", status |-> 0, calls |-> 0, existed |-> FALSE]

-----------------------------------------------------------------------------
(* The requests *)

(* What the call that returned in the latest step was given and what it    *)
(* returned (NoReturn after a step in which no call returned): its         *)
(* arguments, the results, the fault a collaborator raised, the clock      *)
(* LoadUser read for the claims (Epoch when the call built none), whether  *)
(* the collection held the username when the call reached it, and how many *)
(* times the call invoked SaveUser.                                        *)
Returned(op, username, password, token, err, fault, at, existed, saves) ==
    [op |-> op, username |-> username, password |-> password,
     token |-> token, err |-> err, fault |-> fault, at |-> at,
     existed |-> existed, saves |-> saves]

(* the clock when the service starts: between two seconds *)
StartTime == [sec |-> 0, nsec |-> HalfSecond]

NoReturn == Returned("none", "", "", NoToken, Nil, "none", Epoch, FALSE, 0)

Init ==
    /\ store = <<>>
    /\ now = StartTime
    /\ pending = {}
    /\ drawn = 0
    /\ last = NoReturn
    /\ registered = {}
    /\ http = NoExchange

(* time passes *)
Tick ==
    /\ HalfSeconds(now) < HalfSeconds(StartTime) + MaxClock
    /\ now' = IF now.nsec = 0
              THEN [sec |-> now.sec, nsec |-> HalfSecond]
              ELSE [sec |-> now.sec + 1, nsec |-> 0]
    /\ last' = NoReturn
    /\ UNCHANGED <<store, pending, drawn, registered, http>>

(* RegisterUser up to its call of SaveUser: the password is hashed with a *)
(* salt no earlier call drew; a hashing failure returns at once, and the  *)
(* handler, when the call came through it, answers.  `via` is "call" for  *)
(* a direct call of the use case, "handler" or "server" for a request;    *)
(* `fresh` notes whether the collection held the username when the call   *)
(* began.                                                                 *)
BeginRegisterUser(via, username, password) ==
    /\ drawn < MaxSalt
    /\ LET h   == GenerateFromPassword(password, DefaultCost, drawn + 1)
           had == Matching(store, username) # {}
       IN  IF h.err # Nil
           THEN /\ last' = Returned("RegisterUser", username, password, NoToken,
                                    Errorf("failed to hash password", h.err),
                                    "none", Epoch, had, 0)
                /\ http' = IF via = "call"
                           THEN http
                           ELSE Exchange(via, RegisterPattern.method, RegisterPattern.path,
                                         JSONBody(username, password), "handleUserRegister",
                                         RegisterStatus(Errorf("failed to hash password", h.err)),
                                         1, had)
                /\ UNCHANGED <<pending, drawn>>
           ELSE /\ pending' = pending \cup
                        {[via |-> via, username |-> username, password |-> password,
                          hashed |-> h.hash, fresh |-> ~had, doc |-> <<>>]}
                /\ drawn' = drawn + 1
                /\ last' = NoReturn
                /\ UNCHANGED http
    /\ UNCHANGED <<store, now, registered>>

(* a direct call of RegisterUser *)
RegisterUserHash(username, password) == BeginRegisterUser("call", username, password)

(* SaveUser builds its document and reads the clock for createdAt; the *)
(* InsertOne that sends it is a later step                             *)
RegisterUserDocument(call) ==
    /\ call \in pending
    /\ call.doc = <<>>
    /\ pending' = (pending \ {call}) \cup
                  {[call EXCEPT !.doc = <<NewUserDocument(call.username, call.hashed, now)>>]}
    /\ last' = NoReturn
    /\ UNCHANGED <<store, now, drawn, registered, http>>

(* SaveUser's InsertOne, the return of RegisterUser and, for a request, *)
(* the status the handler writes                                        *)
RegisterUserSave(call, fault) ==
    /\ call \in pending
    /\ call.doc # <<>>
    /\ LET res == SaveUser(store, call.doc[1], fault)
           had == Matching(store, call.username) # {}
       IN  /\ store' = res.docs
           /\ last' = Returned("RegisterUser", call.username, call.password, NoToken,
                               res.err, IF fault = "none" THEN "none" ELSE "store",
                               Epoch, had, 1)
           /\ registered' = IF res.err = Nil /\ call.fresh
                            THEN registered \cup {<<call.username, call.password>>}
                            ELSE registered
           /\ http' = IF call.via = "call"
                      THEN http
                      ELSE Exchange(call.via, RegisterPattern.method, RegisterPattern.path,
                                    JSONBody(call.username, call.password),
                                    "handleUserRegister", RegisterStatus(res.err), 1, had)
    /\ pending' = pending \ {call}
    /\ UNCHANGED <<now, drawn>>

(* LoadUser, whose one access to the collection is FindUser.  The fault *)
(* is the one the call meets: the store fails during the lookup, or the *)
(* call gets to sign and signing fails.  The call reads the clock only  *)
(* once the password has verified, to build the claims.                 *)
LoadUserCall(username, password, fault) ==
    /\ LET clean == LoadUser(store, username, password, now, FALSE, FALSE)
           res   == IF fault = "none"
                    THEN clean
                    ELSE LoadUser(store, username, password, now,
                                  fault = "store", fault = "sign")
           read  == fault # "store" /\ clean.err = Nil
       IN  /\ fault = "sign" => clean.err = Nil
           /\ last' = Returned("LoadUser", username, password, res.token, res.err,
                               fault, IF read THEN now ELSE Epoch,
                               Matching(store, username) # {}, 0)
    /\ UNCHANGED <<store, now, pending, drawn, registered, http>>

Next ==
    \/ Tick
    \/ \E u \in Usernames, p \in Passwords : RegisterUserHash(u, p)
    \/ \E call \in pending : RegisterUserDocument(call)
    \/ \E call \in pending, f \in InsertFaults : RegisterUserSave(call, f)
    \/ \E u \in Usernames, p \in Passwords, f \in {"none", "store", "sign"} :
           LoadUserCall(u, p, f)

Spec == Init /\ [][Next]_vars

TypeOK ==
    /\ Len(store) <= MaxSalt + 1
    /\ \A i \in 1..Len(store) : store[i].username \in Usernames
    /\ drawn \in 0..MaxSalt

(* The same service started on a collection that already holds a document *)
(* whose password field is not a bcrypt hash.                             *)
InitExisting ==
    /\ store = <<[username |-> "alice", password |-> NoHash, createdAt |-> Epoch]>>
    /\ now = StartTime
    /\ pending = {}
    /\ drawn = 0
    /\ last = NoReturn
    /\ registered = {}
    /\ http = NoExchange

SpecExisting == InitExisting /\ [][Next]_vars


(* handleUserRegister from the request to its call of SaveUser: a body *)
(* that does not decode is answered at once, any other goes on into    *)
(* RegisterUser                                                        *)
ServeRegister(via, body) ==
    IF ~body.json
    THEN /\ http' = Exchange(via, RegisterPattern.method, RegisterPattern.path, body,
                             "handleUserRegister", StatusBadRequest, 0,
                             Matching(store, body.username) # {})
         /\ last' = NoReturn
         /\ UNCHANGED <<store, now, pending, drawn, registered>>
    ELSE BeginRegisterUser(via, body.username, body.password)

(* A request sent to the handler InitUserRoutes registered on main's mux *)
HandleUserRegister(body) == ServeRegister("handler", body)

(* A request sent to the server main listens with: net/http routes it, on *)
(* a goroutine of its own, through the mux ListenAndServe was given       *)
ServeHTTP(method, path, body) ==
    LET handler == ServeMuxHandler(ServerMux(ListenAndServeHandler), method, path)
    IN  IF handler = "handleUserRegister"
        THEN ServeRegister("server", body)
        ELSE /\ http' = Exchange("server", method, path, body, handler,
                                 UnroutedStatus(handler), 0,
                                 Matching(store, body.username) # {})
             /\ last' = NoReturn
         /\ UNCHANGED <<store, now, pending, drawn, registered>>

NextServer ==
    \/ Tick
    \/ \E body \in Bodies : HandleUserRegister(body)
    \/ \E m \in Methods, path \in Paths, body \in Bodies : ServeHTTP(m, path, body)
    \/ \E call \in pending : RegisterUserDocument(call)
    \/ \E call \in pending, f \in InsertFaults : RegisterUserSave(call, f)

SpecServer == Init /\ [][NextServer]_vars

-----------------------------------------------------------------------------
(* Properties *)

DefaultRole == "USER"

Claims(token) == token[2]

Accounts(username) == Cardinality(Matching(store, username))

(* what LoadUser returns for a registered username and a wrong password *)
WrongPasswordOutcome ==
    LoadUser(<<[username |-> "alice",
                password |-> Bcrypt(Repeat("a", BcryptMaxLen), DefaultCost, 1),
                createdAt |-> Epoch]>>,
             "alice", "", Epoch, FALSE, FALSE)

(* C1: a RegisterUser(u, p) with u and p non-empty that began on a        *)
(* collection without u and returned nil makes every later LoadUser(u, p) *)
(* that meets no fault return a signed token whose username claim is u.   *)
C1_RegisterThenLoad ==
    ( /\ last.op = "LoadUser"
      /\ last.fault = "none"
      /\ last.username # ""
      /\ last.password # ""
      /\ <<last.username, last.password>> \in registered )
    => ( /\ last.err = Nil
         /\ last.token # NoToken
         /\ Claims(last.token).username = last.username )

(* C2: LoadUser for a username the collection does not hold returns the *)
(* outcome it returns for a held username and a wrong password.         *)
C2_UnknownUserSameAsWrongPassword ==
    (last.op = "LoadUser" /\ ~last.existed /\ last.fault # "store")
    => (last.token = WrongPasswordOutcome.token /\ last.err = WrongPasswordOutcome.err)

(* C3: LoadUser with a held username, reached with the store available,   *)
(* and a password other than the registered one ends in the generic       *)
(* "invalid username or password", never another error, never a token.    *)
C3_WrongPasswordDenied ==
    ( /\ last.op = "LoadUser"
      /\ last.fault # "store"
      /\ Accounts(last.username) = 1
      /\ \E p \in Passwords : p # last.password /\ <<last.username, p>> \in registered )
    => (last.err = ErrInvalidCredentials /\ last.token = NoToken)

(* C4: a RegisterUser for a username the collection already holds returns *)
(* a conflict error, not nil and not the generic store failure, and the   *)
(* collection still holds exactly one document of that username.          *)
C4_SecondRegisterConflicts ==
    (last.op = "RegisterUser" /\ last.existed /\ last.saves = 1 /\ last.fault = "none")
    => ( /\ last.err # Nil
         /\ last.err # Errorf("failed to save user", ErrStore)
         /\ Accounts(last.username) = 1 )

(* C5: under every interleaving of RegisterUser calls the collection   *)
(* holds at most one document per username.                            *)
C5_OneAccountPerUsername ==
    \A u \in Usernames : Accounts(u) <= 1

(* C6: RegisterUser with an empty username or an empty password returns *)
(* an error without calling SaveUser, and no document of the collection *)
(* has an empty username.                                               *)
C6_EmptyInputRejected ==
    /\ (last.op = "RegisterUser" /\ (last.username = "" \/ last.password = ""))
       => (last.err # Nil /\ last.saves = 0)
    /\ \A i \in 1..Len(store) : store[i].username # ""

(* C7: every document written by RegisterUser carries the default role, *)
(* and a token carries the role and the username of its account.        *)
C7_RoleStoredAndClaimed ==
    /\ \A i \in 1..Len(store) :
          "role" \in DOMAIN store[i] /\ store[i].role = DefaultRole
    /\ (last.op = "LoadUser" /\ last.token # NoToken)
       => LET user == FindUser(store, last.username, FALSE).user
          IN  /\ Claims(last.token).role = user.Role
              /\ Claims(last.token).username = user.Username

(* C8: the exp claim of every token LoadUser returns is the second of its *)
(* issuance plus 24 hours, 86400 seconds.                                 *)
C8_ExpiryIs24Hours ==
    (last.op = "LoadUser" /\ last.token # NoToken)
    => Claims(last.token).exp = last.at.sec + 24 * SecondsPerHour

C8_Witness ==
    /\ last.op = "LoadUser"
    /\ last.token # NoToken
    /\ last.at.nsec # 0

(* C9: LoadUser returns a token exactly when it returns a nil error; a    *)
(* store fault during the lookup and a signing failure each end in an     *)
(* error other than the generic "invalid username or password", with no   *)
(* token.                                                                 *)
C9_FaultsAreSystemErrors ==
    last.op = "LoadUser"
    => /\ (last.token # NoToken) <=> (last.err = Nil)
       /\ last.fault \in {"store", "sign"}
          => ( /\ last.err # Nil
               /\ last.err # ErrInvalidCredentials
               /\ last.token = NoToken )

C9_Witness ==
    /\ last.op = "LoadUser"
    /\ last.fault = "sign"
    /\ last.err = Errorf("error while creating jwt", ErrSign)

(* C10: when the stored password is not a well-formed hash, LoadUser      *)
(* returns the outcome it returns for a clean password mismatch.          *)
C10_CorruptHashSameAsMismatch ==
    ( /\ last.op = "LoadUser"
      /\ last.fault # "store"
      /\ last.existed
      /\ FindUser(store, last.username, FALSE).user.Password.version = "" )
    => (last.token = WrongPasswordOutcome.token /\ last.err = WrongPasswordOutcome.err)

(* C11: a POST /user/register sent to the listening server reaches the   *)
(* handler InitUserRoutes registered: it is answered 400 without a call   *)
(* of RegisterUser when the body is no JSON, 201 when RegisterUser        *)
(* succeeds and 500 when it fails.                                        *)
C11_RegisterEndpointServed ==
    (http.via = "server" /\ http.method = "POST" /\ http.path = "/user/register")
    => /\ http.handler = "handleUserRegister"
       /\ ~http.body.json => (http.status = StatusBadRequest /\ http.calls = 0)
       /\ http.body.json
          => (http.calls = 1
              /\ http.status \in {StatusCreated, StatusInternalServerError})

(* the handler itself, reached directly, answers as C11 says *)
C11_HandlerAnswers ==
    http.via = "handler"
    => /\ ~http.body.json => (http.status = StatusBadRequest /\ http.calls = 0)
       /\ http.body.json
          => /\ http.calls = 1
             /\ http.status \in {StatusCreated, StatusInternalServerError}
             /\ (http.status = StatusCreated)
                => \E i \in 1..Len(store) : store[i].username = http.body.username

(* C12: a RegisterUser call invokes SaveUser at most once and returns no  *)
(* token, and the step in which it returns an error, after a hashing      *)
(* failure or a failed store write, leaves the collection as it was.      *)
C12_FailedRegisterLeavesStore ==
    [][ /\ last'.op = "RegisterUser" => (last'.saves <= 1 /\ last'.token = NoToken)
        /\ (last'.op = "RegisterUser" /\ last'.err # Nil) => store' = store
        /\ Len(store') <= Len(store) + 1 ]_vars

(* C13: a step in which LoadUser returns leaves the collection unchanged; *)
(* a document, once written, keeps every field in every later state; and  *)
(* the password a RegisterUser writes is the bcrypt hash of its plaintext: *)
(* a well-formed hash that the plaintext verifies against.                 *)
C13_AccountsImmutable ==
    [][ /\ (last'.op = "LoadUser" /\ last' # last) => store' = store
        /\ \A i \in 1..Len(store) : Len(store') >= i /\ store'[i] = store[i]
        /\ \A call \in pending \ pending' :
              Len(store') > Len(store)
              => LET doc == store'[Len(store')]
                 IN  /\ doc.username = call.username
                     /\ doc.password = call.hashed
                     /\ doc.password.version # ""
                     /\ doc.password.digest = BlowfishKey(call.password)
                     /\ CompareHashAndPassword(doc.password, call.password) = Nil ]_vars

C13_Witness ==
    /\ Len(store) = 2
    /\ store[1].username = store[2].username
    /\ last.op = "LoadUser"
    /\ last.token # NoToken

=============================================================================
